---- MODULE Spec2Model ----
(***************************************************************************)
(* Model of the missing-value strategies (src/src/handle_missing_values.py)*)
(* the cleaning step (src/steps/handle_missing_values_step.py) and the ZIP *)
(* ingestor (src/src/ingest_data.py).                                      *)
(*                                                                         *)
(* DataFrames are objects on a heap (a sequence of DataFrame values, a     *)
(* reference is an index), so that copying, in-place writes and aliasing   *)
(* are explicit.  The repository pins no pandas release: where the        *)
(* releases differ in what a call of the code does (PandasBuilds), every   *)
(* call takes the behaviour of one of them.  Numbers are exact rationals   *)
(* n/d in lowest terms.                                                    *)
(***************************************************************************)
EXTENDS Integers, Sequences, FiniteSets, TLC

\* ------------------------------------------------------------------ bounds
MaxRows == 3
MaxThreshold == 3
MaxContextRows == 2

\* ------------------------------------------------------------------- cells
\* A cell is the missing marker (NaN), a number n/d or a string.
NA == [t |-> "na"]
Num(n, d) == [t |-> "num", n |-> n, d |-> d]
Str(s) == [t |-> "str", s |-> s]
\* Python's None, as the value of an optional parameter.
None == [t |-> "none"]

NotNa(c) == c.t # "na"
IsNum(c) == c.t = "num"

Abs(x) == IF x < 0 THEN -x ELSE x

RECURSIVE Gcd(_, _)
Gcd(a, b) == IF b = 0 THEN a ELSE Gcd(b, a % b)

\* n/d in lowest terms, d > 0.
Rat(n, d) ==
    LET g == Gcd(Abs(n), Abs(d))
        s == IF d < 0 THEN -1 ELSE 1
    IN Num((s * n) \div g, (s * d) \div g)

RatAdd(a, b) == Rat(a.n * b.d + b.n * a.d, a.d * b.d)
RatLess(a, b) == a.n * b.d < b.n * a.d

\* Lexicographic order of the strings the model uses.
StrOrder == <<"a", "b", "x">>
StrRank(s) == CHOOSE i \in DOMAIN StrOrder : StrOrder[i] = s
CellLess(a, b) ==
    IF IsNum(a) /\ IsNum(b) THEN RatLess(a, b)
    ELSE IF a.t = "str" /\ b.t = "str" THEN StrRank(a.s) < StrRank(b.s)
    ELSE FALSE

\* -------------------------------------------------------------- DataFrames
\* columns: sequence of [name, dtype]; rows: sequence of rows, a row being a
\* sequence of cells, one per column.
NumVals == {1, 3}
StrVals == {"a", "b"}
InputColumns == << [name |-> "x", dtype |-> "float64"],
                   [name |-> "c", dtype |-> "object"] >>
InputRows == { <<x, c>> : x \in {NA} \cup {Num(n, 1) : n \in NumVals},
                          c \in {NA} \cup {Str(s) : s \in StrVals} }
RowSeqs(n) == [1..n -> InputRows]
DataFrames == { [columns |-> InputColumns, rows |-> r] :
                    r \in UNION { RowSeqs(n) : n \in 0..MaxRows } }

NRows(frame) == Len(frame.rows)
NCols(frame) == Len(frame.columns)
ColCells(frame, j) == [i \in 1..NRows(frame) |-> frame.rows[i][j]]
RowCells(frame, i) == frame.rows[i]

\* Series.count / DataFrame.count: the number of non-missing cells.
Count(cells) == Cardinality({i \in DOMAIN cells : NotNa(cells[i])})

\* The subsequence of s at the indices in keep, in order.
RECURSIVE Keep(_, _, _)
Keep(s, keep, i) ==
    IF i > Len(s) THEN <<>>
    ELSE (IF i \in keep THEN <<s[i]>> ELSE <<>>) \o Keep(s, keep, i + 1)

\* ------------------------------------------------------------------ pandas
\* The pandas releases, by what the calls of the code do in them.
\* How DataFrame.dropna reads thresh=None: before 1.5 thresh=None is "not
\* given" and how="any" applies ("thresh_none_is_how_any"); from 1.5 on the
\* default is a sentinel, an explicit None is compared with the counts
\* (count >= None) and that comparison is False for every label.
\* From 1.5 on fillna(..., inplace=True) of a column without a missing cell
\* returns at once, without the dtype inference.
\* From 3.0 on ("copy_on_write") a column taken from a frame no longer
\* writes through to the frame, fillna no longer re-infers the dtype of an
\* object column, fillna(None) is accepted and fills nothing, and read_csv
\* gives a text column the dtype str.
PandasBuilds == {"thresh_none_is_how_any", "thresh_none_is_compared", "copy_on_write"}
CopyOnWrite(build) == build = "copy_on_write"
FillnaDowncasts(build) == build # "copy_on_write"
FillnaAcceptsNone(build) == build = "copy_on_write"
InplaceNoopReturnsSelf(build) == build # "thresh_none_is_how_any"
TextDtype(build) == IF build = "copy_on_write" THEN "str" ELSE "object"

\* DropnaMask with the comparison count > thresh.
DropnaMaskStrict(cellsOf, labels, thresh, build) ==
    IF thresh # None
    THEN {l \in labels : Count(cellsOf[l]) > thresh.n}
    ELSE IF build = "thresh_none_is_how_any"
         THEN {l \in labels : \A k \in DOMAIN cellsOf[l] : NotNa(cellsOf[l][k])}
         ELSE {}

\* The labels (row or column indices) DataFrame.dropna keeps, given the cells
\* of each label along the other axis.
DropnaMask(cellsOf, labels, thresh, build) ==
    IF thresh # None
    THEN {l \in labels : Count(cellsOf[l]) >= thresh.n}
    ELSE IF build = "thresh_none_is_how_any"
         THEN {l \in labels : \A k \in DOMAIN cellsOf[l] : NotNa(cellsOf[l][k])}
         ELSE {}

\* DataFrame.dropna(axis=axis, thresh=thresh): a new frame.
Dropna(frame, axis, thresh, build) ==
    IF axis = 0
    THEN LET rowIdx == 1..NRows(frame)
             mask == DropnaMask([i \in rowIdx |-> RowCells(frame, i)],
                                rowIdx, thresh, build)
         IN [columns |-> frame.columns, rows |-> Keep(frame.rows, mask, 1)]
    ELSE LET colIdx == 1..NCols(frame)
             mask == DropnaMask([j \in colIdx |-> ColCells(frame, j)],
                                colIdx, thresh, build)
         IN [columns |-> Keep(frame.columns, mask, 1),
             rows |-> [i \in 1..NRows(frame) |-> Keep(frame.rows[i], mask, 1)]]

\* DataFrame.select_dtypes(include="number").columns, as column indices.
NumberDtypes == {"int64", "float64"}
SelectDtypesNumber(frame) ==
    {j \in 1..NCols(frame) : frame.columns[j].dtype \in NumberDtypes}

RECURSIVE RatSum(_)
RatSum(s) == IF s = <<>> THEN Num(0, 1) ELSE RatAdd(Head(s), RatSum(Tail(s)))

\* Mean dividing by the number of cells, the missing ones counted.
MeanOverAllCells(cells) ==
    LET vals == SelectSeq(cells, NotNa)
        sum == RatSum(vals)
    IN IF vals = <<>> THEN NA ELSE Rat(sum.n, sum.d * Len(cells))

\* Series.mean(): the mean of the non-missing cells, NaN when there is none.
Mean(cells) ==
    LET vals == SelectSeq(cells, NotNa)
        sum == RatSum(vals)
    IN IF vals = <<>> THEN NA ELSE Rat(sum.n, sum.d * Len(vals))

\* Series.median(): the middle of the sorted non-missing cells (the mean of
\* the two middle ones for an even count), NaN when there is none.
Median(cells) ==
    LET vals == SortSeq(SelectSeq(cells, NotNa), RatLess)
        n == Len(vals)
        two == RatAdd(vals[n \div 2], vals[(n \div 2) + 1])
    IN IF n = 0 THEN NA
       ELSE IF n % 2 = 1 THEN vals[(n + 1) \div 2]
       ELSE Rat(two.n, two.d * 2)

\* Series.mode(): the most frequent non-missing values, sorted ascending
\* (left in order of first appearance when they cannot be compared).
Mode(cells) ==
    LET vals == SelectSeq(cells, NotNa)
        freq(v) == Cardinality({i \in DOMAIN vals : vals[i] = v})
        top == {i \in DOMAIN vals : \A k \in DOMAIN vals : freq(vals[k]) <= freq(vals[i])}
        first == {i \in top : \A k \in top : vals[k] = vals[i] => i <= k}
        modes == [i \in 1..Cardinality(first) |->
                     vals[CHOOSE f \in first : Cardinality({g \in first : g <= f}) = i]]
        sortable == \A i, k \in first : vals[i].t = vals[k].t
    IN IF sortable THEN SortSeq(modes, CellLess) ELSE modes

\* The dtype of a column after missing cells were replaced by value: a
\* numeric column that had a missing cell and receives a non-number becomes
\* object; an object column that has cells and holds nothing but numbers
\* after the fill is re-inferred as int64 or float64 in the releases where
\* fillna down-casts, also when no cell was missing; nothing else changes
\* dtype.
FillnaDtype(col, cells, value, build) ==
    LET hadMissing == \E i \in DOMAIN cells : ~NotNa(cells[i])
        filled == [i \in DOMAIN cells |-> IF NotNa(cells[i]) THEN cells[i] ELSE value]
    IN IF col.dtype \in NumberDtypes /\ ~IsNum(value) /\ NotNa(value) /\ hadMissing
       THEN [col EXCEPT !.dtype = "object"]
       ELSE IF col.dtype = "object" /\ FillnaDowncasts(build) /\ Len(cells) > 0
               /\ \A i \in DOMAIN filled : IsNum(filled[i])
       THEN [col EXCEPT !.dtype = IF \A i \in DOMAIN filled : filled[i].d = 1
                                  THEN "int64" ELSE "float64"]
       ELSE col

\* FillnaColumns as with limit=1: only the first missing cell of a column is
\* replaced.
FillnaColumnsFirstOnly(frame, cols, values, build) ==
    [columns |-> [j \in 1..NCols(frame) |->
                    IF j \in cols
                    THEN FillnaDtype(frame.columns[j], ColCells(frame, j), values[j], build)
                    ELSE frame.columns[j]],
     rows |-> [i \in 1..NRows(frame) |->
                 [j \in 1..NCols(frame) |->
                    IF j \in cols /\ ~NotNa(frame.rows[i][j])
                       /\ \A k \in 1..(i - 1) : NotNa(frame.rows[k][j])
                    THEN values[j] ELSE frame.rows[i][j]]]]

\* DataFrame.fillna restricted to the columns in cols, column j filled with
\* values[j]: every missing cell there is replaced (a NaN value replaces
\* nothing), every other cell is kept.
FillnaColumns(frame, cols, values, build) ==
    [columns |-> [j \in 1..NCols(frame) |->
                    IF j \in cols
                    THEN FillnaDtype(frame.columns[j], ColCells(frame, j), values[j], build)
                    ELSE frame.columns[j]],
     rows |-> [i \in 1..NRows(frame) |->
                 [j \in 1..NCols(frame) |->
                    IF j \in cols /\ ~NotNa(frame.rows[i][j])
                    THEN values[j] ELSE frame.rows[i][j]]]]

\* ----------------------------------------------------------------- objects
\* A fresh DataFrame object holding frame.
NewObj(h, frame) == [heap |-> Append(h, frame), ref |-> Len(h) + 1]

Returned(ref) == [kind |-> "returned", ref |-> ref]
Raised(exc, msg) == [kind |-> "raised", exc |-> exc, msg |-> msg]
NoOutcome == [kind |-> "none"]

LogRecord(level, msg) == [level |-> level, msg |-> msg]

\* What is left of the heap when a call that started with the objects
\* 1..base ends: those objects and the object it returned, if a new one.
Collect(h, base, out) ==
    IF out.kind = "returned" /\ out.ref > base
    THEN [heap |-> Append(SubSeq(h, 1, base), h[out.ref]), out |-> Returned(base + 1)]
    ELSE [heap |-> SubSeq(h, 1, base), out |-> out]

\* -------------------------------------------------------------- strategies
\* The defaults of the two constructors the cleaning step relies on.
DefaultThreshold == None
DefaultFillValue == None

\* DropMissingValuesStrategy.__init__
DropMissingValuesStrategy(axis, threshold) ==
    [cls |-> "DropMissingValuesStrategy", axis |-> axis, threshold |-> threshold]

\* FillMissingValuesStrategy.__init__
FillMissingValuesStrategy(method, fill_value) ==
    [cls |-> "FillMissingValuesStrategy", method |-> method, fill_value |-> fill_value]

\* DfCopy without the copy: df_cleaned = df, the same object.
DfCopyAlias(h, df) == [heap |-> h, ref |-> df]

\* DataFrame.copy(): a new object with the same cells.
DfCopy(h, df) == NewObj(h, h[df])

\* DropMissingValuesStrategy.handle
DropHandle(self, h, df, build) ==
    LET df_cleaned == NewObj(h, Dropna(h[df], self.axis, self.threshold, build))
    IN [heap |-> df_cleaned.heap,
        out |-> Returned(df_cleaned.ref),
        log |-> << LogRecord("INFO", "Dropping missing values"),
                   LogRecord("INFO", "Missing values dropped.") >>,
        self |-> self]

\* df_cleaned[numerical_cols] = df_cleaned[numerical_cols].fillna(stats):
\* the numeric columns of df_cleaned are replaced by themselves filled,
\* column j with stats[j].
FillStatistic(h, df_cleaned, stats, build) ==
    LET numerical_cols == SelectDtypesNumber(h[df_cleaned])
    IN [h EXCEPT ![df_cleaned] = FillnaColumns(@, numerical_cols, stats, build)]

\* The branch method == "mean": the statistic is df[numerical_cols].mean().
FillMean(h, df, df_cleaned, build) ==
    [heap |-> FillStatistic(h, df_cleaned,
                            [j \in 1..NCols(h[df]) |-> Mean(ColCells(h[df], j))], build),
     out |-> Returned(df_cleaned), log |-> <<>>]

\* The branch method == "median": the statistic is df[numerical_cols].median().
FillMedian(h, df, df_cleaned, build) ==
    [heap |-> FillStatistic(h, df_cleaned,
                            [j \in 1..NCols(h[df]) |-> Median(ColCells(h[df], j))], build),
     out |-> Returned(df_cleaned), log |-> <<>>]

\* The loop of the mode branch, from column j on: the column df_cleaned[col]
\* is filled in place with the first mode of the same column of df;
\* .iloc[0] of an empty mode raises IndexError.  The column writes through
\* to df_cleaned, except under copy-on-write, where it is a temporary and
\* df_cleaned stays as copied.  From 1.5 on an in-place fill of a column
\* without a missing cell does nothing at all; before, it still re-infers
\* the dtype of an object column.
RECURSIVE FillModeLoop(_, _, _, _, _)
FillModeLoop(h, df, df_cleaned, j, build) ==
    IF j > NCols(h[df_cleaned])
    THEN [heap |-> h, out |-> Returned(df_cleaned), log |-> <<>>]
    ELSE LET modes == Mode(ColCells(h[df], j))
         IN IF modes = <<>>
            THEN [heap |-> h,
                  out |-> Raised("IndexError", "single positional indexer is out-of-bounds"),
                  log |-> <<>>]
            ELSE FillModeLoop(IF CopyOnWrite(build)
                                 \/ (InplaceNoopReturnsSelf(build)
                                     /\ Count(ColCells(h[df_cleaned], j)) = NRows(h[df_cleaned]))
                              THEN h
                              ELSE [h EXCEPT ![df_cleaned] =
                                      FillnaColumns(@, {j}, [k \in 1..NCols(@) |-> modes[1]],
                                                    build)],
                              df, df_cleaned, j + 1, build)

\* The branch method == "mode".
FillMode(h, df, df_cleaned, build) == FillModeLoop(h, df, df_cleaned, 1, build)

\* FillConstant filling the numeric columns only.
FillConstantNumericOnly(h, df_cleaned, fill_value, build) ==
    IF fill_value = None /\ ~FillnaAcceptsNone(build)
    THEN [heap |-> h,
          out |-> Raised("ValueError", "Must specify a fill 'value' or 'method'."),
          log |-> <<>>]
    ELSE IF fill_value = None
    THEN LET same == NewObj(h, h[df_cleaned])
         IN [heap |-> same.heap, out |-> Returned(same.ref), log |-> <<>>]
    ELSE LET filled == NewObj(h, FillnaColumns(h[df_cleaned], SelectDtypesNumber(h[df_cleaned]),
                                [j \in 1..NCols(h[df_cleaned]) |-> fill_value], build))
         IN [heap |-> filled.heap, out |-> Returned(filled.ref), log |-> <<>>]

\* The branch method == "constant": df_cleaned = df_cleaned.fillna(
\* self.fill_value), a new frame; fillna(None) raises ValueError before it
\* looks at the data, or, in the releases that accept None, returns a new
\* frame with the missing cells still missing.
FillConstant(h, df_cleaned, fill_value, build) ==
    IF fill_value = None /\ ~FillnaAcceptsNone(build)
    THEN [heap |-> h,
          out |-> Raised("ValueError", "Must specify a fill 'value' or 'method'."),
          log |-> <<>>]
    ELSE IF fill_value = None
    THEN LET same == NewObj(h, h[df_cleaned])
         IN [heap |-> same.heap, out |-> Returned(same.ref), log |-> <<>>]
    ELSE LET filled == NewObj(h, FillnaColumns(h[df_cleaned], 1..NCols(h[df_cleaned]),
                                [j \in 1..NCols(h[df_cleaned]) |-> fill_value], build))
         IN [heap |-> filled.heap, out |-> Returned(filled.ref), log |-> <<>>]

\* FillUnknown raising instead of logging.
FillUnknownRaises(h, df_cleaned) ==
    [heap |-> h, out |-> Raised("ValueError", "unknown method"), log |-> <<>>]

\* The else branch: any other method is logged and df_cleaned left as copied.
FillUnknown(h, df_cleaned) ==
    [heap |-> h, out |-> Returned(df_cleaned),
     log |-> << LogRecord("WARNING", "unknown method... No missing values handled.") >>]

\* FillMissingValuesStrategy.handle
FillHandle(self, h, df, build) ==
    LET copy == DfCopy(h, df)
        df_cleaned == copy.ref
        branch == IF self.method = "mean" THEN FillMean(copy.heap, df, df_cleaned, build)
                  ELSE IF self.method = "median"
                  THEN FillMedian(copy.heap, df, df_cleaned, build)
                  ELSE IF self.method = "mode" THEN FillMode(copy.heap, df, df_cleaned, build)
                  ELSE IF self.method = "constant"
                  THEN FillConstant(copy.heap, df_cleaned, self.fill_value, build)
                  ELSE FillUnknown(copy.heap, df_cleaned)
    IN [heap |-> branch.heap,
        out |-> branch.out,
        log |-> << LogRecord("INFO", "Filling missing values using method") >>
                  \o branch.log
                  \o (IF branch.out.kind = "returned"
                      THEN << LogRecord("INFO", "Missing values filled.") >> ELSE <<>>),
        self |-> self]

\* strategy.handle(df), by the class of the strategy.
StrategyHandle(self, h, df, build) ==
    IF self.cls = "DropMissingValuesStrategy"
    THEN DropHandle(self, h, df, build)
    ELSE FillHandle(self, h, df, build)

\* ----------------------------------------------------------------- context
\* MissingValueHandler.__init__
MissingValueHandler(strategy) == [_strategy |-> strategy]
NoHandler == [_strategy |-> None]

\* MissingValueHandler.handle_missing_values
HandleMissingValues(self, h, df, build) ==
    LET r == StrategyHandle(self._strategy, h, df, build)
    IN [heap |-> r.heap, out |-> r.out,
        log |-> << LogRecord("INFO", "Executing the current missing value handling strategy.") >>
                  \o r.log,
        self |-> [self EXCEPT !._strategy = r.self]]

\* SetStrategy assigning to another attribute: _strategy keeps the old one.
SetStrategyKeepsOld(self, strategy) ==
    [self |-> self,
     log |-> << LogRecord("INFO", "Switching to a new missing value handling strategy.") >>]

\* MissingValueHandler.set_strategy
SetStrategy(self, strategy) ==
    [self |-> [self EXCEPT !._strategy = strategy],
     log |-> << LogRecord("INFO", "Switching to a new missing value handling strategy.") >>]

\* -------------------------------------------------------------------- step
StepFillNames == {"mean", "median", "mode", "constant"}

\* HandleMissingValuesStep without the else branch: any other name is passed
\* on as a fill method.
HandleMissingValuesStepLenient(h, df, strategy, build) ==
    IF strategy = "drop"
    THEN HandleMissingValues(
             MissingValueHandler(DropMissingValuesStrategy(0, DefaultThreshold)),
             h, df, build)
    ELSE HandleMissingValues(
             MissingValueHandler(FillMissingValuesStrategy(strategy, DefaultFillValue)),
             h, df, build)

\* HandleMissingValuesStep supplying a fill literal, 0, with the fill names.
HandleMissingValuesStepWithLiteral(h, df, strategy, build) ==
    IF strategy = "drop"
    THEN HandleMissingValues(
             MissingValueHandler(DropMissingValuesStrategy(0, DefaultThreshold)),
             h, df, build)
    ELSE IF strategy \in StepFillNames
    THEN HandleMissingValues(
             MissingValueHandler(FillMissingValuesStrategy(strategy, Num(0, 1))),
             h, df, build)
    ELSE [heap |-> h,
          out |-> Raised("ValueError",
                         "The provided missing value handling strategy is unsupported/unknown"),
          log |-> <<>>, self |-> NoHandler]

\* handle_missing_values_step(df, strategy)
HandleMissingValuesStep(h, df, strategy, build) ==
    IF strategy = "drop"
    THEN HandleMissingValues(
             MissingValueHandler(DropMissingValuesStrategy(0, DefaultThreshold)),
             h, df, build)
    ELSE IF strategy \in StepFillNames
    THEN HandleMissingValues(
             MissingValueHandler(FillMissingValuesStrategy(strategy, DefaultFillValue)),
             h, df, build)
    ELSE [heap |-> h,
          out |-> Raised("ValueError",
                         "The provided missing value handling strategy is unsupported/unknown"),
          log |-> <<>>, self |-> NoHandler]

\* ------------------------------------------------------------------ ingest
\* A file name is its stem and its extension; str.endswith(ext) reads the
\* extension.
FileName(stem, ext) == [stem |-> stem, ext |-> ext]
EndsWith(name, ext) == name.ext = ext

\* A path below the staging directory: a directory ("" for the top level)
\* and a file name.
Entry(dir, name) == [dir |-> dir, name |-> name]
EntryPaths == { Entry("", FileName("a", ".csv")), Entry("", FileName("b", ".csv")),
                Entry("", FileName("readme", ".txt")),
                Entry("sub", FileName("a", ".csv")) }

\* The text of a CSV file: a header line and data lines, each a sequence of
\* fields.
CsvTexts == { << <<"x", "c">>, <<"1", "a">>, <<"", "b">> >>,
              << <<"x">>, <<"3">>, <<"1">> >> }
Absent == <<>>

\* A ZIP archive: the text of each entry it holds.
Containers == [EntryPaths -> CsvTexts \cup {Absent}]
ArchivePaths == {FileName("archive", ".zip"), FileName("archive", ".tar")}

\* pandas.read_csv: one field.
ParseField(f) ==
    IF f = "" THEN NA
    ELSE IF f = "1" THEN Num(1, 1)
    ELSE IF f = "3" THEN Num(3, 1)
    ELSE Str(f)

\* pandas.read_csv: the first line names the columns; a column without
\* fields is object, one whose fields are all numbers is int64, all numbers
\* or empty float64, anything else a text column (its numbers then stay
\* text).
ReadCsv(text, build) ==
    LET header == text[1]
        n == Len(text) - 1
        parsed(j) == [i \in 1..n |-> ParseField(text[i + 1][j])]
        dtype(j) ==
            IF n = 0 THEN "object"
            ELSE IF \A i \in 1..n : IsNum(parsed(j)[i]) THEN "int64"
            ELSE IF \A i \in 1..n : parsed(j)[i].t \in {"num", "na"} THEN "float64"
            ELSE TextDtype(build)
        cell(i, j) ==
            IF dtype(j) \notin NumberDtypes /\ text[i + 1][j] # ""
            THEN Str(text[i + 1][j]) ELSE parsed(j)[i]
    IN [columns |-> [j \in 1..Len(header) |-> [name |-> header[j], dtype |-> dtype(j)]],
        rows |-> [i \in 1..n |-> [j \in 1..Len(header) |-> cell(i, j)]]]

\* ZipFile.extractall("extracted_data"): every entry of the archive is
\* written below the staging directory, over a file of the same path; the
\* directory is created with the first entry written.
ExtractAll(stage, container) ==
    [exists |-> stage.exists \/ \E p \in EntryPaths : container[p] # Absent,
     files |-> [p \in EntryPaths |->
                  IF container[p] # Absent THEN container[p] ELSE stage.files[p]]]

\* os.listdir("extracted_data") filtered by f.endswith(".csv"): the entries
\* directly in the staging directory (files, and directories by their own
\* name) whose name ends in .csv.
CsvFiles(stage) ==
    {p \in EntryPaths : p.dir = "" /\ stage.files[p] # Absent /\ EndsWith(p.name, ".csv")}

\* An ingest that extracts before it looks at the extension.
ZipIngestExtractsFirst(stage, file_path, container, build) ==
    [staging |-> ExtractAll(stage, container),
     out |-> IF ~EndsWith(file_path, ".zip")
             THEN Raised("ValueError", "The provided file is not a .zip file.")
             ELSE Raised("FileNotFoundError", "No CSV file found in the extracted data.")]

\* ZipDataIngestor.ingest
ZipIngest(stage, file_path, container, build) ==
    IF ~EndsWith(file_path, ".zip")
    THEN [staging |-> stage,
          out |-> Raised("ValueError", "The provided file is not a .zip file.")]
    ELSE LET extracted == ExtractAll(stage, container)
             csv_files == CsvFiles(extracted)
         IN [staging |-> extracted,
             out |-> IF ~extracted.exists
                     THEN Raised("FileNotFoundError",
                                 "[Errno 2] No such file or directory: 'extracted_data'")
                     ELSE IF Cardinality(csv_files) = 0
                     THEN Raised("FileNotFoundError",
                                 "No CSV file found in the extracted data.")
                     ELSE IF Cardinality(csv_files) > 1
                     THEN Raised("ValueError",
                                 "Multiple CSV files found. Please specify which one to use.")
                     ELSE [kind |-> "returned",
                           frame |-> ReadCsv(extracted.files[CHOOSE p \in csv_files : TRUE], build)]]

\* ------------------------------------------------------------ the program
VARIABLES
    heap,       \* the DataFrame objects alive; heap[1] is the caller's input
    handler,    \* the caller's MissingValueHandler, NoHandler for a pipeline run
    supplied,   \* the strategy the caller supplied last (constructor or swap)
    phase,      \* "constructed", "applied", "reapplied"
    call,       \* the last call: its entry point, its argument, its strategy
    outcome,    \* what the last application or step returned or raised
    log,        \* the log records of the last call
    pre,        \* heap, handler, call and outcome when the last call started
    staging,    \* the staging directory "extracted_data" and its files
    ingested    \* the last ingest: its path, its archive, what it gave

cleaningVars == <<heap, handler, supplied, phase, call, outcome, log, pre>>
ingestVars == <<staging, ingested>>
vars == <<heap, handler, supplied, phase, call, outcome, log, pre, staging, ingested>>

Thresholds == {None} \cup {Num(k, 1) : k \in 0..MaxThreshold}
Methods == {"mean", "median", "mode", "constant", "bogus"}
FillValues == {Num(0, 1), Str("x")}
Strategies ==
    {DropMissingValuesStrategy(a, t) : a \in {0, 1}, t \in Thresholds}
    \cup {FillMissingValuesStrategy(m, DefaultFillValue) : m \in Methods}
    \cup {FillMissingValuesStrategy("constant", v) : v \in FillValues}
StepNames == {"drop", "bogus", "MEAN"} \cup StepFillNames

NoCall == [op |-> "none"]

\* A checkout in which nothing was ingested yet: no staging directory.
InitStaging ==
    /\ staging = [exists |-> FALSE, files |-> [p \in EntryPaths |-> Absent]]
    /\ ingested = NoCall

Init ==
    /\ InitStaging
    /\ heap \in {<<frame>> : frame \in DataFrames}
    /\ handler \in {NoHandler} \cup {MissingValueHandler(st) : st \in Strategies}
    /\ supplied = handler._strategy
    /\ phase = "constructed"
    /\ call = NoCall
    /\ outcome = NoOutcome
    /\ log = <<>>
    /\ pre = [heap |-> heap, handler |-> handler, call |-> call, outcome |-> outcome]

\* The frames a caller that holds a context passes next: its input, then the
\* frame the first call returned, or its input again after a swap.
NextArgument(df) ==
    \/ phase = "constructed" /\ df = 1
    \/ phase = "applied" /\ outcome.kind = "returned" /\ df = outcome.ref
    \/ phase = "applied" /\ call.op = "set_strategy" /\ df = 1

NextPhase == IF phase = "constructed" THEN "applied" ELSE "reapplied"

\* The effect of a call that gave r, started with the current heap.
Finish(r) ==
    LET c == Collect(r.heap, Len(heap), r.out)
    IN /\ heap' = c.heap
       /\ outcome' = c.out
       /\ log' = r.log
       /\ pre' = [heap |-> heap, handler |-> handler, call |-> call, outcome |-> outcome]
       /\ phase' = NextPhase
       /\ supplied' = supplied

\* The caller applies its strategy directly: strategy.handle(df).
Handle ==
    \E df \in 1..Len(heap), build \in PandasBuilds :
        /\ handler # NoHandler
        /\ NextArgument(df)
        /\ LET r == StrategyHandle(handler._strategy, heap, df, build)
           IN /\ Finish(r)
              /\ call' = [op |-> "handle", df |-> df,
                          strategy |-> handler._strategy]
              /\ handler' = [handler EXCEPT !._strategy = r.self]
              /\ UNCHANGED ingestVars

\* The caller applies the context: handler.handle_missing_values(df).
Apply ==
    \E df \in 1..Len(heap), build \in PandasBuilds :
        /\ handler # NoHandler
        /\ NextArgument(df)
        /\ LET r == HandleMissingValues(handler, heap, df, build)
           IN /\ Finish(r)
              /\ call' = [op |-> "handle_missing_values", df |-> df,
                          strategy |-> handler._strategy]
              /\ handler' = r.self
              /\ UNCHANGED ingestVars

\* A pipeline run calls the cleaning step on its input.
Step ==
    \E name \in StepNames, build \in PandasBuilds :
        /\ handler = NoHandler
        /\ phase = "constructed"
        /\ LET r == HandleMissingValuesStep(heap, 1, name, build)
           IN /\ Finish(r)
              /\ call' = [op |-> "step", df |-> 1, name |-> name]
              /\ handler' = handler
              /\ UNCHANGED ingestVars

Next == Handle \/ Apply \/ Step

Spec == Init /\ [][Next]_vars

\* The strategies of the runs with swaps: the two of the module's example
\* (a row drop by threshold, a mean fill), a mode fill and a constant fill.
ContextStrategies ==
    { DropMissingValuesStrategy(0, Num(2, 1)),
      FillMissingValuesStrategy("mean", DefaultFillValue),
      FillMissingValuesStrategy("mode", DefaultFillValue),
      FillMissingValuesStrategy("constant", Num(0, 1)) }

\* A caller that swaps the strategy of its context between applications, as
\* the module's own example does: handler.set_strategy(strategy).
Swap ==
    \E strategy \in ContextStrategies :
        /\ handler # NoHandler
        /\ LET r == SetStrategy(handler, strategy)
           IN /\ handler' = r.self
              /\ log' = r.log
              /\ supplied' = strategy
              /\ call' = [op |-> "set_strategy", strategy |-> strategy]
              /\ pre' = [heap |-> heap, handler |-> handler, call |-> call,
                         outcome |-> outcome]
              /\ UNCHANGED <<heap, outcome, phase>>
              /\ UNCHANGED ingestVars

\* The runs with swaps: frames of at most MaxContextRows rows, a context
\* constructed with one of ContextStrategies.
InitContext ==
    /\ Init
    /\ handler \in {MissingValueHandler(st) : st \in ContextStrategies}
    /\ Len(heap[1].rows) <= MaxContextRows

NextContext == Apply \/ Swap

SpecContext == InitContext /\ [][NextContext]_vars

\* The ingestion side on its own: a sequence of ingests of archives that
\* share the staging directory of one working directory.
InitIngest ==
    /\ InitStaging
    /\ heap = <<>>
    /\ handler = NoHandler
    /\ supplied = handler._strategy
    /\ phase = "constructed"
    /\ call = NoCall
    /\ outcome = NoOutcome
    /\ log = <<>>
    /\ pre = [heap |-> heap, handler |-> handler, call |-> call, outcome |-> outcome]

\* data_ingestor.ingest(file_path), the archive at file_path holding container.
Ingest ==
    \E file_path \in ArchivePaths, container \in Containers, build \in PandasBuilds :
        LET r == ZipIngest(staging, file_path, container, build)
        IN /\ staging' = r.staging
           /\ ingested' = [op |-> "ingest", file_path |-> file_path,
                           container |-> container, before |-> staging, out |-> r.out]
           /\ UNCHANGED cleaningVars

NextIngest == Ingest

SpecIngest == InitIngest /\ [][NextIngest]_vars

\* ------------------------------------------------------------------ claims
\* The last call was made on a strategy, directly or through the context.
StrategyCall == call.op \in {"handle", "handle_missing_values"}
DropCall == StrategyCall /\ call.strategy.cls = "DropMissingValuesStrategy"
FillCall == StrategyCall /\ call.strategy.cls = "FillMissingValuesStrategy"
FillCallWith(method) == FillCall /\ call.strategy.method = method
\* The frame the last call was given, as it was when the call started, and
\* the frame it returned.
CallInput == pre.heap[call.df]
CallResult == heap[outcome.ref]

Missing(c) == c = NA
NonMissing(cells) == Cardinality({k \in DOMAIN cells : ~Missing(cells[k])})
Column(frame, j) == [i \in 1..Len(frame.rows) |-> frame.rows[i][j]]
Names(frame) == [j \in DOMAIN frame.columns |-> frame.columns[j].name]
IsNumeric(frame, j) == frame.columns[j].dtype \in {"int64", "float64"}
SameShape(a, b) ==
    /\ Names(a) = Names(b)
    /\ Len(a.rows) = Len(b.rows)
    /\ \A i \in DOMAIN a.rows : DOMAIN a.rows[i] = DOMAIN b.rows[i]

\* C1: Drop with axis=row and an integer threshold T keeps exactly the rows
\* with at least T non-missing cells, in their input order, and keeps the
\* columns as they are.
C1_DropRowsByThreshold ==
    (DropCall /\ call.strategy.axis = 0 /\ call.strategy.threshold # None) =>
        /\ outcome.kind = "returned"
        /\ LET retained == {i \in 1..Len(CallInput.rows) :
                              NonMissing(CallInput.rows[i]) >= call.strategy.threshold.n}
               rank(i) == Cardinality({k \in retained : k <= i})
           IN /\ CallResult.columns = CallInput.columns
              /\ Len(CallResult.rows) = Cardinality(retained)
              /\ \A i \in retained : CallResult.rows[rank(i)] = CallInput.rows[i]

\* A row drop by threshold that removed a row from between two retained ones.
C1_Witness ==
    /\ DropCall /\ call.strategy.axis = 0 /\ call.strategy.threshold = Num(2, 1)
    /\ outcome.kind = "returned"
    /\ Len(CallInput.rows) = 3 /\ Len(CallResult.rows) = 2
    /\ NonMissing(CallInput.rows[2]) = 1
    /\ CallResult.rows[1] # CallResult.rows[2]

\* The sum of the numbers in vals times the product of their denominators.
RECURSIVE DenProduct(_)
DenProduct(vals) == IF vals = <<>> THEN 1 ELSE Head(vals).d * DenProduct(Tail(vals))
RECURSIVE ScaledSum(_, _)
ScaledSum(vals, scale) ==
    IF vals = <<>> THEN 0
    ELSE Head(vals).n * (scale \div Head(vals).d) + ScaledSum(Tail(vals), scale)

Present(cells) == SelectSeq(cells, LAMBDA c : ~Missing(c))

\* v is the arithmetic mean of the non-missing cells: v * count = sum.
IsMeanOf(v, cells) ==
    LET vals == Present(cells)
        scale == DenProduct(vals)
    IN v.t = "num" /\ v.n * scale * Len(vals) = ScaledSum(vals, scale) * v.d

Below(vals, a) == Cardinality({i \in DOMAIN vals : vals[i].n * a.d < a.n * vals[i].d})
AtMost(vals, a) == Cardinality({i \in DOMAIN vals : vals[i].n * a.d <= a.n * vals[i].d})
\* a is the k-th smallest of vals.
IsKth(vals, a, k) == Below(vals, a) < k /\ AtMost(vals, a) >= k

\* v is the median of the non-missing cells.
IsMedianOf(v, cells) ==
    LET vals == Present(cells)
        n == Len(vals)
    IN /\ v.t = "num"
       /\ IF n % 2 = 1
          THEN IsKth(vals, v, (n + 1) \div 2)
          ELSE \E i, k \in DOMAIN vals :
                  /\ IsKth(vals, vals[i], n \div 2)
                  /\ IsKth(vals, vals[k], (n \div 2) + 1)
                  /\ 2 * v.n * vals[i].d * vals[k].d
                        = v.d * (vals[i].n * vals[k].d + vals[k].n * vals[i].d)

IsStatisticOf(method, v, cells) ==
    IF method = "mean" THEN IsMeanOf(v, cells) ELSE IsMedianOf(v, cells)

\* C2: mean (median) fill replaces every missing cell of a numeric column
\* that has a non-missing cell by the mean (median) of the column's
\* non-missing input cells, keeps every non-missing cell, and returns every
\* categorical column cell for cell, missing cells included.
C2_FillStatistic ==
    (FillCallWith("mean") \/ FillCallWith("median")) =>
        /\ outcome.kind = "returned"
        /\ SameShape(CallResult, CallInput)
        /\ \A j \in DOMAIN CallInput.columns :
              LET before == Column(CallInput, j)
                  after == Column(CallResult, j)
              IN IF IsNumeric(CallInput, j)
                 THEN NonMissing(before) > 0 =>
                        \A i \in DOMAIN before :
                           IF Missing(before[i])
                           THEN IsStatisticOf(call.strategy.method, after[i], before)
                           ELSE after[i] = before[i]
                 ELSE after = before

\* Mean fill of the numeric column [1, missing, 3] gave [1, 2, 3], next to a
\* categorical column whose missing cell is still missing.
C2_Witness ==
    /\ FillCallWith("mean") /\ outcome.kind = "returned"
    /\ Column(CallInput, 1) = <<Num(1, 1), NA, Num(3, 1)>>
    /\ Column(CallResult, 1) = <<Num(1, 1), Num(2, 1), Num(3, 1)>>
    /\ \E i \in 1..3 : Missing(Column(CallResult, 2)[i])

\* C3: constant fill with a literal v puts v in every cell that was missing,
\* in every column, keeps every other cell, and keeps the row count and the
\* column names.
C3_FillConstant ==
    (FillCallWith("constant") /\ call.strategy.fill_value # None) =>
        /\ outcome.kind = "returned"
        /\ SameShape(CallResult, CallInput)
        /\ \A i \in DOMAIN CallInput.rows : \A j \in DOMAIN CallInput.rows[i] :
              CallResult.rows[i][j] =
                 IF Missing(CallInput.rows[i][j]) THEN call.strategy.fill_value
                 ELSE CallInput.rows[i][j]

\* Constant fill with 0 of a frame with a missing cell in the numeric and in
\* the categorical column.
C3_Witness ==
    /\ FillCallWith("constant") /\ call.strategy.fill_value = Num(0, 1)
    /\ outcome.kind = "returned"
    /\ \E i, k \in DOMAIN CallInput.rows :
          /\ Missing(CallInput.rows[i][1]) /\ CallResult.rows[i][1] = Num(0, 1)
          /\ Missing(CallInput.rows[k][2]) /\ CallResult.rows[k][2] = Num(0, 1)
    /\ \E i \in DOMAIN CallInput.rows : ~Missing(CallInput.rows[i][1])

\* The error a constant fill without a literal ends in: the ValueError of
\* DataFrame.fillna(None).
MissingFillValueError(o) ==
    o.kind = "raised" /\ o.exc = "ValueError"
    /\ o.msg = "Must specify a fill 'value' or 'method'."

\* C4: constant fill constructed without a literal raises the missing-fill-
\* value error for every input, also one without missing cells, and returns
\* no frame.
C4_ConstantWithoutLiteral ==
    (FillCallWith("constant") /\ call.strategy.fill_value = None) =>
        /\ MissingFillValueError(outcome)
        /\ heap = pre.heap

KnownMethods == {"mean", "median", "mode", "constant"}
UnknownMethodCall == FillCall /\ call.strategy.method \notin KnownMethods
HasWarning == \E k \in DOMAIN log : log[k].level = "WARNING"

\* C5: a Fill strategy with an unrecognized method never raises, returns a
\* frame equal to its input cell for cell, and it is exactly this case that
\* logs a warning.
C5_UnknownMethod ==
    /\ UnknownMethodCall =>
          /\ outcome.kind = "returned"
          /\ CallResult = CallInput
    /\ call.op # "none" => (HasWarning <=> UnknownMethodCall)

\* A fill with the method "bogus" of a frame with missing cells returned it
\* with the cells still missing and logged the warning.
C5_Witness ==
    /\ UnknownMethodCall /\ outcome.kind = "returned" /\ HasWarning
    /\ \E i \in DOMAIN CallResult.rows : NonMissing(CallResult.rows[i]) = 0

\* The error of the strategy selection in the cleaning step.
InvalidStrategyParameter(o) ==
    o.kind = "raised" /\ o.exc = "ValueError"
    /\ o.msg = "The provided missing value handling strategy is unsupported/unknown"

StepSelectable == {"drop", "mean", "median", "mode", "constant"}

\* C6: the cleaning step raises the selection error exactly for the names
\* outside drop, mean, median, mode, constant, and then before any strategy
\* was constructed or applied: nothing was logged and no frame was made.
C6_StepSelection ==
    call.op = "step" =>
        /\ InvalidStrategyParameter(outcome) <=> call.name \notin StepSelectable
        /\ call.name \notin StepSelectable => (log = <<>> /\ heap = pre.heap)

\* The step ended in the selection error for a frame with a missing cell.
C6_Witness ==
    /\ call.op = "step" /\ call.name = "bogus"
    /\ InvalidStrategyParameter(outcome)
    /\ \E i \in DOMAIN CallInput.rows : NonMissing(CallInput.rows[i]) < 2

\* The .csv files an archive holds at its top level.
ArchiveCsv(container) ==
    {p \in EntryPaths : p.dir = "" /\ container[p] # Absent /\ p.name.ext = ".csv"}
ZipIngested == ingested.op = "ingest" /\ ingested.file_path.ext = ".zip"
SourceNotFoundError(o) == o.kind = "raised" /\ o.exc = "FileNotFoundError"
AmbiguousSourceError(o) ==
    o.kind = "raised" /\ o.exc = "ValueError"
    /\ o.msg = "Multiple CSV files found. Please specify which one to use."

\* C7: an ingest of an archive that holds no .csv file fails with the
\* source-not-found error and one of an archive that holds two or more fails
\* with the ambiguous-source error, whatever earlier ingests left in the
\* staging directory.
C7_ArchiveCsvCountDecides ==
    ZipIngested =>
        /\ Cardinality(ArchiveCsv(ingested.container)) = 0
              => SourceNotFoundError(ingested.out)
        /\ Cardinality(ArchiveCsv(ingested.container)) >= 2
              => AmbiguousSourceError(ingested.out)

\* C8: an ingest of an archive that holds exactly one .csv file returns the
\* frame read from that file, also after an earlier ingest of an archive
\* whose .csv file has another name.
C8_SingleCsvIsParsed ==
    (ZipIngested /\ Cardinality(ArchiveCsv(ingested.container)) = 1) =>
        /\ ingested.out.kind = "returned"
        /\ \A p \in ArchiveCsv(ingested.container) :
              \E build \in PandasBuilds :
                 ingested.out.frame = ReadCsv(ingested.container[p], build)

MeanFill(c) == c.op \in {"handle", "handle_missing_values"}
               /\ c.strategy = FillMissingValuesStrategy("mean", None)

\* C9: a mean fill of the frame a first mean fill returned returns an equal
\* frame, through the context or the strategy directly.
C9_MeanFillIdempotent ==
    (/\ MeanFill(call) /\ MeanFill(pre.call)
     /\ pre.outcome.kind = "returned" /\ call.df = pre.outcome.ref
     /\ outcome.kind = "returned") =>
        CallResult = CallInput

\* A second mean fill, through the context after a first one made directly,
\* returned a new frame equal to the first result, which the first fill had
\* changed in two cells.
C9_Witness ==
    /\ MeanFill(call) /\ MeanFill(pre.call)
    /\ call.op = "handle_missing_values" /\ pre.call.op = "handle"
    /\ outcome.kind = "returned" /\ outcome.ref = 3 /\ call.df = 2
    /\ heap[3] = heap[2]
    /\ Cardinality({i \in DOMAIN heap[1].rows : heap[1].rows[i][1] # heap[2].rows[i][1]}) = 2

\* C10: a strategy application, returning or failing, leaves the frame it
\* was given and every other frame that existed as they were, and leaves the
\* parameters of the strategy as they were.
C10_InputNotMutated ==
    StrategyCall =>
        /\ \A r \in DOMAIN pre.heap : r \in DOMAIN heap /\ heap[r] = pre.heap[r]
        /\ handler = pre.handler
        /\ handler._strategy = call.strategy

\* A mode fill failed at its second column, after it had filled missing
\* cells of the first in its copy; the frame it was given is as it was.
C10_Witness ==
    /\ FillCallWith("mode") /\ outcome.kind = "raised"
    /\ heap[call.df] = CallInput
    /\ \E i \in DOMAIN CallInput.rows : Missing(CallInput.rows[i][1])
    /\ \E i \in DOMAIN CallInput.rows : ~Missing(CallInput.rows[i][1])

\* The last call applied the context to a frame.
ContextCall == call.op = "handle_missing_values"
\* The last call swapped the strategy of the context.
SwapCall == call.op = "set_strategy"
\* What the strategy st gives for the frame the last call was given, started
\* with the heap of that moment, under some build of pandas.
StrategyGives(st) ==
    \E build \in PandasBuilds :
        LET r == StrategyHandle(st, pre.heap, call.df, build)
            c == Collect(r.heap, Len(pre.heap), r.out)
        IN outcome = c.out /\ heap = c.heap

\* C11: the context holds one active strategy, the one most recently supplied
\* at construction or by a swap; applying the context gives exactly what that
\* strategy gives for the frame, whatever was applied before, and leaves the
\* active strategy as it is; a swap changes the active strategy only, and
\* leaves the frames returned earlier and the last outcome as they are.
C11_ContextAppliesLastSupplied ==
    /\ handler # NoHandler => handler._strategy = supplied
    /\ ContextCall =>
        /\ StrategyGives(supplied)
        /\ handler = pre.handler
    /\ SwapCall =>
        /\ supplied = call.strategy
        /\ heap = pre.heap
        /\ outcome = pre.outcome

\* A context constructed with a row drop dropped a row, was swapped to a mean
\* fill and applied to the same input again: it returned a third frame, of
\* the input's length, and the frame returned first is still on the heap.
C11_Witness ==
    /\ ContextCall /\ pre.call.op = "set_strategy"
    /\ phase = "reapplied" /\ call.df = 1
    /\ supplied = FillMissingValuesStrategy("mean", DefaultFillValue)
    /\ outcome = Returned(3)
    /\ Len(heap[2].rows) < Len(heap[1].rows)
    /\ Len(heap[3].rows) = Len(heap[1].rows)
    /\ heap[3] # heap[1]

InvalidInputError(o) ==
    o.kind = "raised" /\ o.exc = "ValueError"
    /\ o.msg = "The provided file is not a .zip file."

\* C12: an ingest of a path that does not end in .zip fails with the
\* invalid-input error, returns no frame, and leaves the staging directory
\* with exactly the files it held before the call.
C12_NonZipRejectedBeforeExtraction ==
    (ingested.op = "ingest" /\ ~EndsWith(ingested.file_path, ".zip")) =>
        /\ InvalidInputError(ingested.out)
        /\ staging = ingested.before

\* A .tar path was refused while the staging directory held a.csv of an
\* earlier ingest and the archive held another text for a.csv and a b.csv.
C12_Witness ==
    /\ ingested.op = "ingest" /\ ingested.file_path = FileName("archive", ".tar")
    /\ InvalidInputError(ingested.out)
    /\ ingested.before.exists
    /\ ingested.before.files[Entry("", FileName("a", ".csv"))] # Absent
    /\ ingested.container[Entry("", FileName("a", ".csv"))]
          \notin {Absent, ingested.before.files[Entry("", FileName("a", ".csv"))]}
    /\ ingested.container[Entry("", FileName("b", ".csv"))] # Absent
    /\ staging.files[Entry("", FileName("b", ".csv"))] = Absent

\* v is a value of maximal frequency among the non-missing cells.
IsModeOf(v, cells) ==
    LET vals == Present(cells)
        freq(w) == Cardinality({i \in DOMAIN vals : vals[i] = w})
    IN \E i \in DOMAIN vals :
          /\ vals[i] = v
          /\ \A k \in DOMAIN vals : freq(vals[k]) <= freq(v)

\* v is what the method fills the missing cells of a column of cells with.
IsFillOf(method, v, cells) ==
    IF method = "mode" THEN IsModeOf(v, cells) ELSE IsStatisticOf(method, v, cells)

\* The columns of the last call's input the method applies to: the numeric
\* ones for mean and median, every column for mode.
Applicable(method) ==
    {j \in DOMAIN CallInput.columns : method = "mode" \/ IsNumeric(CallInput, j)}
\* Those of them that have cells, all of them missing.
AllMissing(method) ==
    {j \in Applicable(method) :
        Len(CallInput.rows) > 0 /\ NonMissing(Column(CallInput, j)) = 0}

\* C13: a mean, median or mode fill of a frame with an applicable column
\* that has no non-missing cell returns a frame in which that column is
\* still all missing and every other applicable column is filled as usual,
\* and logs a warning.
C13_AllMissingColumnSkipped ==
    \A method \in {"mean", "median", "mode"} :
        (FillCallWith(method) /\ AllMissing(method) # {}) =>
            /\ outcome.kind = "returned"
            /\ SameShape(CallResult, CallInput)
            /\ \A j \in AllMissing(method) :
                  \A i \in DOMAIN CallResult.rows : Missing(CallResult.rows[i][j])
            /\ \A j \in Applicable(method) \ AllMissing(method) :
                  LET before == Column(CallInput, j)
                      after == Column(CallResult, j)
                  IN \A i \in DOMAIN before :
                        IF Missing(before[i])
                        THEN IsFillOf(method, after[i], before)
                        ELSE after[i] = before[i]
            /\ HasWarning

\* v is the least, in the order of the column's values, of the values of
\* maximal frequency among the non-missing cells.
IsLeastModeOf(v, cells) ==
    /\ IsModeOf(v, cells)
    /\ \A w \in {cells[i] : i \in DOMAIN cells} : IsModeOf(w, cells) => ~CellLess(w, v)

\* C14: a mode fill of any frame gives, for every column that has a
\* non-missing cell, numeric or categorical, a column in which every missing
\* cell is replaced by a value of maximal frequency among the column's
\* non-missing cells and every other cell is kept; among tied values the one
\* chosen depends on the input column only (it is the least of them).
C14_ModeFillsEveryColumn ==
    FillCallWith("mode") =>
        \A j \in DOMAIN CallInput.columns :
            NonMissing(Column(CallInput, j)) > 0 =>
                /\ outcome.kind = "returned"
                /\ SameShape(CallResult, CallInput)
                /\ LET before == Column(CallInput, j)
                       after == Column(CallResult, j)
                   IN \A i \in DOMAIN before :
                         IF Missing(before[i])
                         THEN IsLeastModeOf(after[i], before)
                         ELSE after[i] = before[i]

\* The k-th smallest member of the set of indices kept.
KthOf(kept, k) == CHOOSE i \in kept : Cardinality({m \in kept : m <= i}) = k
\* The frame is the rows keptRows and the columns keptCols of the input of
\* the last call, each in their input order.
IsSelection(frame, keptRows, keptCols) ==
    /\ Len(frame.columns) = Cardinality(keptCols)
    /\ Len(frame.rows) = Cardinality(keptRows)
    /\ \A k \in 1..Cardinality(keptCols) :
          frame.columns[k] = CallInput.columns[KthOf(keptCols, k)]
    /\ \A r \in 1..Cardinality(keptRows) :
          /\ Len(frame.rows[r]) = Cardinality(keptCols)
          /\ \A k \in 1..Cardinality(keptCols) :
                frame.rows[r][k] = CallInput.rows[KthOf(keptRows, r)][KthOf(keptCols, k)]
\* The rows and the columns of the input of the last call without a missing
\* cell.
CompleteRows ==
    {i \in DOMAIN CallInput.rows : NonMissing(CallInput.rows[i]) = Len(CallInput.rows[i])}
CompleteColumns ==
    {j \in DOMAIN CallInput.columns :
        NonMissing(Column(CallInput, j)) = Len(CallInput.rows)}

\* C15: Drop constructed without a threshold returns, with axis=row, exactly
\* the rows without a missing cell and, with axis=column, exactly the columns
\* without a missing cell, in their input order; it never raises and the
\* frame returned has no missing cell.
C15_DropWithoutThreshold ==
    (DropCall /\ call.strategy.threshold = None) =>
        /\ outcome.kind = "returned"
        /\ IF call.strategy.axis = 0
           THEN IsSelection(CallResult, CompleteRows, DOMAIN CallInput.columns)
           ELSE IsSelection(CallResult, DOMAIN CallInput.rows, CompleteColumns)
        /\ \A i \in DOMAIN CallResult.rows :
              \A k \in DOMAIN CallResult.rows[i] : ~Missing(CallResult.rows[i][k])

\* The kind of a column: numeric or categorical.
Kind(frame, j) == IF IsNumeric(frame, j) THEN "numeric" ELSE "categorical"

\* C16: whenever a strategy returns a frame, every column of it has the kind
\* the column of that name has in the input; so a constant fill with a
\* literal that is not a number leaves the numeric columns numeric.
C16_KindInvariant ==
    (StrategyCall /\ outcome.kind = "returned") =>
        \A j \in DOMAIN CallResult.columns :
            \E k \in DOMAIN CallInput.columns :
                /\ CallInput.columns[k].name = CallResult.columns[j].name
                /\ Kind(CallInput, k) = Kind(CallResult, j)

\* The last call was the cleaning step, called with name.
StepCall(name) == call.op = "step" /\ call.name = name

\* C17: the step called with "drop" gives what Drop(axis=row, no threshold)
\* gives for the input, and called with "mean", "median", "mode" or
\* "constant" what Fill(method=name, no literal) gives, frame or error; so
\* "constant" through the step has the outcome of a constant fill without a
\* literal.
C17_StepSuppliesDefaultsOnly ==
    /\ StepCall("drop") => StrategyGives(DropMissingValuesStrategy(0, None))
    /\ \A name \in {"mean", "median", "mode", "constant"} :
          StepCall(name) => StrategyGives(FillMissingValuesStrategy(name, None))

\* The step called with "constant" on a frame with a missing cell in each
\* column raised the missing-fill-value error.
C17_Witness ==
    /\ StepCall("constant")
    /\ MissingFillValueError(outcome)
    /\ Len(CallInput.rows) = 2
    /\ \A j \in DOMAIN CallInput.columns : NonMissing(Column(CallInput, j)) = 1

====
